---------------------------- MODULE Spec2Model ----------------------------
(***************************************************************************)
(* Model of src/src/jarowinkler.rs: the JaroWinkler scorer, its reusable   *)
(* scratch buffer `indices`, and the apply operation with its passes       *)
(* (ensure_capacity, Inner::new, matches, transpositions, prefix,          *)
(* calculate).                                                             *)
(*                                                                         *)
(* Strings are sequences of byte values.  The code indexes from 0, TLA+    *)
(* sequences from 1: every buffer and string access goes through the       *)
(* 0-based accessors below.  The f64 score is kept as an exact rational    *)
(* [num, den]; the float rounding of the last bits is not modelled.        *)
(* The raw-pointer and get_unchecked accesses of the code are undefined    *)
(* behaviour outside their bounds: the passes record such an access in     *)
(* `oob`, and a call that performed one returns any value.                 *)
(***************************************************************************)
EXTENDS Integers, Sequences, FiniteSets, TLC

VARIABLES indices,   \* JaroWinkler.indices, the scratch buffer
          pc,        \* "idle", "called" (apply entered) or "returned"
          s1, s2,    \* arguments of the current apply
          ret,       \* value it returned
          m, t, p,   \* matches, transpositions and prefix it computed
          pairs,     \* <<i, j>> matched by its matching pass, in order
          flagged,   \* number of max_flags slots equal to 0 when its matching pass ended
          passes,    \* the passes it ran, in order
          oob        \* it accessed memory outside its bounds

vars == <<indices, pc, s1, s2, ret, m, t, p, pairs, flagged, passes, oob>>

---------------------------------------------------------------------------
(* Bounds *)

MaxLen == 4          \* longest generated string
MaxInitCap == 2      \* largest generated with_size argument (besides the default)

(* Program constants *)

DefaultSize == 128   \* JaroWinkler::new
Sentinel == -1       \* fill value of the buffer
PrefixCap == 4       \* Inner::prefix, take(4)

Alphabet == {97, 98}                      \* "a", "b"

StringsUpTo(n) == UNION {[1..k -> Alphabet] : k \in 0..n}

FooBar == <<70, 111, 111, 32, 98, 97, 114>>                                   \* "Foo bar"
FoodCandybar == <<70, 111, 111, 100, 32, 99, 97, 110, 100, 121, 98, 97, 114>> \* "Food candybar"
Foobar == <<70, 111, 111, 98, 97, 114>>                                       \* "Foobar"
Pqxyz == <<112, 113, 120, 121, 122>>                                          \* "pqxyz"
Martha == <<109, 97, 114, 116, 104, 97>>                                      \* "martha"
Marhta == <<109, 97, 114, 104, 116, 97>>                                      \* "marhta"
Abaa == <<97, 98, 97, 97>>                                                    \* "abaa"
Baaa == <<98, 97, 97, 97>>                                                    \* "baaa"
Aabb == <<97, 97, 98, 98>>                                                    \* "aabb"
Bbaa == <<98, 98, 97, 97>>                                                    \* "bbaa"
Bbaab == <<98, 98, 97, 97, 98>>                                               \* "bbaab"

TestPairs ==
  { <<FooBar, FoodCandybar>>, <<FoodCandybar, FooBar>>, <<FooBar, FooBar>>,
    <<Foobar, Pqxyz>>, <<Pqxyz, Foobar>>,
    <<Martha, Marhta>>, <<Marhta, Martha>>, <<Martha, Martha>>,
    <<Abaa, Baaa>>, <<Baaa, Abaa>>, <<Aabb, Bbaa>>, <<Bbaa, Aabb>>, <<Abaa, Bbaab>> }

Inputs == (StringsUpTo(MaxLen) \X StringsUpTo(MaxLen)) \cup TestPairs

---------------------------------------------------------------------------
(* Rationals *)

(* A score is a rational in lowest terms with a positive denominator;      *)
(* a division by zero gives NaN, which every operation propagates.         *)
Abs(x) == IF x < 0 THEN -x ELSE x

RECURSIVE GCD(_, _)
GCD(a, b) == IF b = 0 THEN a ELSE GCD(b, a % b)

NaN == [num |-> 0, den |-> 0]
Rat(n, d) ==
  IF d = 0 THEN NaN
  ELSE LET g == GCD(Abs(n), Abs(d))
           sgn == IF d < 0 THEN -1 ELSE 1
       IN  [num |-> sgn * (n \div g), den |-> sgn * (d \div g)]
Zero == Rat(0, 1)
One == Rat(1, 1)
IsNaN(x) == x.den = 0
RatAdd(x, y) == IF IsNaN(x) \/ IsNaN(y) THEN NaN
                ELSE Rat(x.num * y.den + y.num * x.den, x.den * y.den)
RatSub(x, y) == IF IsNaN(x) \/ IsNaN(y) THEN NaN
                ELSE Rat(x.num * y.den - y.num * x.den, x.den * y.den)
RatMul(x, y) == IF IsNaN(x) \/ IsNaN(y) THEN NaN
                ELSE Rat(x.num * y.num, x.den * y.den)
RatDiv(x, y) == IF IsNaN(x) \/ IsNaN(y) THEN NaN
                ELSE Rat(x.num * y.den, x.den * y.num)
RatLe(x, y) == ~IsNaN(x) /\ ~IsNaN(y) /\ x.num * y.den <= y.num * x.den

---------------------------------------------------------------------------
(* 0-based access *)

At(s, k) == s[k + 1]
InBuf(buf, k) == k >= 0 /\ k < Len(buf)
Rd(buf, k) == IF InBuf(buf, k) THEN buf[k + 1] ELSE Sentinel
Wr(buf, k, v) == IF InBuf(buf, k) THEN [buf EXCEPT ![k + 1] = v] ELSE buf
Fill(n) == [k \in 1..n |-> Sentinel]
saturating_sub(a, b) == IF a >= b THEN a - b ELSE 0
Min2(a, b) == IF a <= b THEN a ELSE b

---------------------------------------------------------------------------
(* JaroWinkler::with_size, JaroWinkler::new *)

with_size(size) == Fill(size)
new == with_size(DefaultSize)

(* Variant of ensure_capacity that forgets the doubling. *)
ensure_capacity_exact(buf, capacity) ==
  IF capacity <= Len(buf) THEN buf ELSE Fill(capacity)

(* Variant of ensure_capacity that only doubles. *)
ensure_capacity_double(buf, capacity) ==
  IF capacity <= Len(buf) THEN buf ELSE Fill(Len(buf) * 2)

(* JaroWinkler::ensure_capacity *)
ensure_capacity(buf, capacity) ==
  LET current_capacity == Len(buf)
      doubled == current_capacity * 2
      new_capacity == IF doubled < capacity THEN capacity ELSE doubled
  IN  IF capacity <= current_capacity THEN buf ELSE Fill(new_capacity)

(* Inner::new: min_indices is buf[0 .. len(min)), max_flags is              *)
(* buf[len(min) .. len(min) + len(max)).                                   *)
Inner_new(buf, min, max) ==
  [buf |-> buf, min |-> min, max |-> max,
   oob |-> Len(buf) < Len(min) + Len(max)]

min_indices(inner, k) == Rd(inner.buf, k)
max_flags(inner, j) == Rd(inner.buf, Len(inner.min) + j)
set_min_indices(inner, k, v) ==
  [inner EXCEPT !.buf = Wr(@, k, v),
                !.oob = @ \/ k < 0 \/ k >= Len(inner.min) \/ ~InBuf(inner.buf, k)]
set_max_flags(inner, j, v) ==
  [inner EXCEPT !.buf = Wr(@, Len(inner.min) + j, v),
                !.oob = @ \/ j < 0 \/ j >= Len(inner.max)
                          \/ ~InBuf(inner.buf, Len(inner.min) + j)]

(* Variant of the inner loop that does not test max_flags. *)
RECURSIVE matches_scan_noflag(_, _, _, _)
matches_scan_noflag(inner, c1, j, end) ==
  IF j >= end THEN -1
  ELSE IF c1 = At(inner.max, j) THEN j
  ELSE matches_scan_noflag(inner, c1, j + 1, end)

(* Inner::matches, the inner loop: the first j in [j, end) whose byte is   *)
(* c1 and whose flag is not 0, or -1.                                      *)
RECURSIVE matches_scan(_, _, _, _)
matches_scan(inner, c1, j, end) ==
  IF j >= end THEN -1
  ELSE IF c1 = At(inner.max, j) /\ max_flags(inner, j) # 0 THEN j
  ELSE matches_scan(inner, c1, j + 1, end)

(* Inner::matches, the outer loop over the positions of min.               *)
RECURSIVE matches_loop(_, _, _, _, _)
matches_loop(inner, range, i, n_matches, prs) ==
  IF i >= Len(inner.min) THEN [inner |-> inner, matches |-> n_matches, pairs |-> prs]
  ELSE LET c1 == At(inner.min, i)
           start == saturating_sub(i, range)
           end == Min2(Len(inner.max), i + range + 1)
           j == matches_scan(inner, c1, start, end)
       IN  IF j = -1 THEN matches_loop(inner, range, i + 1, n_matches, prs)
           ELSE matches_loop(set_max_flags(set_min_indices(inner, n_matches, i), j, 0),
                             range, i + 1, n_matches + 1, Append(prs, <<i, j>>))

matches(inner) ==
  matches_loop(inner, saturating_sub(Len(inner.max) \div 2, 1), 0, 0, <<>>)

(* Inner::transpositions, the while loop: advance the cursor to the next   *)
(* slot of max_flags that holds 0; a cursor at len(max) is a read outside  *)
(* max_flags.                                                              *)
RECURSIVE transpositions_skip(_, _)
transpositions_skip(inner, max_index) ==
  IF max_index >= Len(inner.max) THEN max_index
  ELSE IF max_flags(inner, max_index) # 0 THEN transpositions_skip(inner, max_index + 1)
  ELSE max_index

(* Variant of the for loop that leaves the walked max_flags at 0. *)
RECURSIVE transpositions_loop_keepflags(_, _, _, _, _)
transpositions_loop_keepflags(inner, n_matches, i, tr, max_index) ==
  IF i >= n_matches THEN [inner |-> inner, t |-> tr]
  ELSE LET min_index == min_indices(inner, i)
           k == transpositions_skip(inner, max_index)
       IN  IF k >= Len(inner.max) \/ min_index < 0 \/ min_index >= Len(inner.min)
              \/ i >= Len(inner.min)
           THEN [inner |-> [inner EXCEPT !.oob = TRUE], t |-> tr]
           ELSE LET tr2 == IF At(inner.min, min_index) # At(inner.max, k)
                           THEN tr + 1 ELSE tr
                    cleared == set_min_indices(inner, i, Sentinel)
                IN  transpositions_loop_keepflags(cleared, n_matches, i + 1, tr2, k + 1)

(* Variant of the for loop that leaves the walked min_indices in place. *)
RECURSIVE transpositions_loop_keepindices(_, _, _, _, _)
transpositions_loop_keepindices(inner, n_matches, i, tr, max_index) ==
  IF i >= n_matches THEN [inner |-> inner, t |-> tr]
  ELSE LET min_index == min_indices(inner, i)
           k == transpositions_skip(inner, max_index)
       IN  IF k >= Len(inner.max) \/ min_index < 0 \/ min_index >= Len(inner.min)
              \/ i >= Len(inner.min)
           THEN [inner |-> [inner EXCEPT !.oob = TRUE], t |-> tr]
           ELSE LET tr2 == IF At(inner.min, min_index) # At(inner.max, k)
                           THEN tr + 1 ELSE tr
                    cleared == set_max_flags(inner, k, Sentinel)
                IN  transpositions_loop_keepindices(cleared, n_matches, i + 1, tr2, k + 1)

(* Inner::transpositions, the for loop: the raw mismatch count and the      *)
(* buffer with the walked entries reset to -1.                             *)
RECURSIVE transpositions_loop(_, _, _, _, _)
transpositions_loop(inner, n_matches, i, tr, max_index) ==
  IF i >= n_matches THEN [inner |-> inner, t |-> tr]
  ELSE LET min_index == min_indices(inner, i)
           k == transpositions_skip(inner, max_index)
       IN  IF k >= Len(inner.max) \/ min_index < 0 \/ min_index >= Len(inner.min)
              \/ i >= Len(inner.min)
           THEN [inner |-> [inner EXCEPT !.oob = TRUE], t |-> tr]
           ELSE LET tr2 == IF At(inner.min, min_index) # At(inner.max, k)
                           THEN tr + 1 ELSE tr
                    cleared == set_max_flags(set_min_indices(inner, i, Sentinel),
                                             k, Sentinel)
                IN  transpositions_loop(cleared, n_matches, i + 1, tr2, k + 1)

(* Variant of transpositions that returns the raw mismatch count. *)
transpositions_nohalve(inner, n_matches) ==
  transpositions_loop(inner, n_matches, 0, 0, 0)

(* Inner::transpositions: the loop, then t / 2.                            *)
transpositions(inner, n_matches) ==
  LET walked == transpositions_loop(inner, n_matches, 0, 0, 0)
  IN  [inner |-> walked.inner, t |-> walked.t \div 2]

(* Variant of prefix without take(4). *)
RECURSIVE prefix_loop_nocap(_, _, _)
prefix_loop_nocap(min, max, k) ==
  IF k >= Len(min) \/ k >= Len(max) THEN k
  ELSE IF At(min, k) = At(max, k) THEN prefix_loop_nocap(min, max, k + 1)
  ELSE k

(* Inner::prefix *)
RECURSIVE prefix_loop(_, _, _)
prefix_loop(min, max, k) ==
  IF k >= PrefixCap \/ k >= Len(min) \/ k >= Len(max) THEN k
  ELSE IF At(min, k) = At(max, k) THEN prefix_loop(min, max, k + 1)
  ELSE k

prefix(inner) == prefix_loop(inner.min, inner.max, 0)

(* The arithmetic of calculate, in the order the code evaluates it:        *)
(*   j = (m / min_len + m / max_len + (m - t) / m) / 3.0                   *)
(*   j + 0.1 * p * (1.0 - j)                                               *)
score_formula(mm, tt, pp, min_len, max_len) ==
  LET j == RatDiv(RatAdd(RatAdd(RatDiv(Rat(mm, 1), Rat(min_len, 1)),
                                RatDiv(Rat(mm, 1), Rat(max_len, 1))),
                         RatDiv(Rat(mm - tt, 1), Rat(mm, 1))),
                  Rat(3, 1))
  IN  RatAdd(j, RatMul(RatMul(Rat(1, 10), Rat(pp, 1)), RatSub(One, j)))

ZeroFlags(inner) == Cardinality({j \in 0..(Len(inner.max) - 1) : max_flags(inner, j) = 0})

(* Variant of calculate without the m == 0 return. *)
calculate_nocheck(buf, min, max, done) ==
  LET inner == Inner_new(buf, min, max)
      mt == matches(inner)
      mm == mt.matches
      tp == transpositions(mt.inner, mm)
      pp == prefix(tp.inner)
  IN  [indices |-> tp.inner.buf,
       ret |-> score_formula(mm, tp.t, pp, Len(min), Len(max)),
       m |-> mm, t |-> tp.t, p |-> pp,
       pairs |-> mt.pairs, flagged |-> ZeroFlags(mt.inner),
       passes |-> done \o <<"new", "matches", "transpositions", "prefix">>,
       oob |-> tp.inner.oob]

(* JaroWinkler::calculate *)
calculate(buf, min, max, done) ==
  LET inner == Inner_new(buf, min, max)
      mt == matches(inner)
      mm == mt.matches
      tp == transpositions(mt.inner, mm)
      pp == prefix(tp.inner)
  IN  IF mm = 0
      THEN [indices |-> mt.inner.buf, ret |-> Zero, m |-> 0, t |-> 0, p |-> 0,
            pairs |-> mt.pairs, flagged |-> ZeroFlags(mt.inner),
            passes |-> done \o <<"new", "matches">>, oob |-> mt.inner.oob]
      ELSE [indices |-> tp.inner.buf,
            ret |-> score_formula(mm, tp.t, pp, Len(min), Len(max)),
            m |-> mm, t |-> tp.t, p |-> pp,
            pairs |-> mt.pairs, flagged |-> ZeroFlags(mt.inner),
            passes |-> done \o <<"new", "matches", "transpositions", "prefix">>,
            oob |-> tp.inner.oob]

EarlyReturn(buf, r) ==
  [indices |-> buf, ret |-> r, m |-> 0, t |-> 0, p |-> 0, pairs |-> <<>>,
   flagged |-> 0, passes |-> <<>>, oob |-> FALSE]

(* Variant of apply without the swap. *)
apply_noswap(buf, a, b) ==
  IF a = <<>> /\ b = <<>> THEN EarlyReturn(buf, One)
  ELSE IF a = <<>> \/ b = <<>> THEN EarlyReturn(buf, Zero)
  ELSE calculate(ensure_capacity(buf, Len(a) + Len(b)), a, b, <<"ensure_capacity">>)

(* Variant of apply that grows the buffer before it looks at the inputs. *)
apply_grow_first(buf, a, b) ==
  LET grown == ensure_capacity(buf, Len(a) + Len(b))
      b1 == IF Len(a) > Len(b) THEN b ELSE a
      b2 == IF Len(a) > Len(b) THEN a ELSE b
  IN  IF a = <<>> /\ b = <<>> THEN EarlyReturn(grown, One)
      ELSE IF a = <<>> \/ b = <<>> THEN EarlyReturn(grown, Zero)
      ELSE calculate(grown, b1, b2, <<"ensure_capacity">>)

(* JaroWinkler::apply *)
apply(buf, a, b) ==
  IF a = <<>> /\ b = <<>> THEN EarlyReturn(buf, One)
  ELSE IF a = <<>> \/ b = <<>> THEN EarlyReturn(buf, Zero)
  ELSE LET grown == ensure_capacity(buf, Len(a) + Len(b))
           b1 == IF Len(a) > Len(b) THEN b ELSE a
           b2 == IF Len(a) > Len(b) THEN a ELSE b
       IN  calculate(grown, b1, b2, <<"ensure_capacity">>)

---------------------------------------------------------------------------
(* State machine *)

UBResults == {Zero, One, NaN}

NoCall ==
  /\ ret = Zero
  /\ m = 0 /\ t = 0 /\ p = 0
  /\ pairs = <<>>
  /\ flagged = 0
  /\ passes = <<>>
  /\ oob = FALSE

(* A scorer built by new, with_size(size) or Default (capacity 0). *)
Init ==
  /\ indices \in {new} \cup {with_size(size) : size \in 0..MaxInitCap}
  /\ pc = "idle"
  /\ s1 = <<>> /\ s2 = <<>>
  /\ NoCall

(* The caller passes two strings to apply. *)
Call(a, b) ==
  /\ pc = "idle"
  /\ pc' = "called"
  /\ s1' = a /\ s2' = b
  /\ UNCHANGED <<indices, ret, m, t, p, pairs, flagged, passes, oob>>

(* The body of apply, from its entry to its return. *)
Apply ==
  /\ pc = "called"
  /\ \E r \in {apply(indices, s1, s2)} :
        /\ indices' = r.indices
        /\ ret' \in (IF r.oob THEN UBResults \cup {r.ret} ELSE {r.ret})
        /\ m' = r.m /\ t' = r.t /\ p' = r.p
        /\ pairs' = r.pairs
        /\ flagged' = r.flagged
        /\ passes' = r.passes
        /\ oob' = r.oob
  /\ pc' = "returned"
  /\ UNCHANGED <<s1, s2>>

(* The caller takes the score; the scorer is free for the next call. *)
Release ==
  /\ pc = "returned"
  /\ pc' = "idle"
  /\ s1' = <<>> /\ s2' = <<>>
  /\ ret' = Zero
  /\ m' = 0 /\ t' = 0 /\ p' = 0
  /\ pairs' = <<>>
  /\ flagged' = 0
  /\ passes' = <<>>
  /\ oob' = FALSE
  /\ UNCHANGED indices

Next ==
  \/ \E ab \in Inputs : Call(ab[1], ab[2])
  \/ Apply
  \/ Release

Spec == Init /\ [][Next]_vars

TypeOK ==
  /\ indices \in Seq(Int)
  /\ pc \in {"idle", "called", "returned"}
  /\ oob \in BOOLEAN

---------------------------------------------------------------------------
(* Vocabulary of the properties *)

Called == pc = "returned"
NonEmptyCall == Called /\ s1 # <<>> /\ s2 # <<>>
Capacity == Len(indices)
MinStr == IF Len(s1) > Len(s2) THEN s2 ELSE s1
MaxStr == IF Len(s1) > Len(s2) THEN s1 ELSE s2
Bytes(s) == {s[k] : k \in 1..Len(s)}
SetMin(S) == CHOOSE x \in S : \A y \in S : x <= y
SetMax(S) == CHOOSE x \in S : \A y \in S : y <= x
Rank(x, S) == Cardinality({y \in S : y < x})

(* The matching of min against max as section 4.1 step 4 words it: for each *)
(* position i of min in increasing order, the smallest position of the      *)
(* window that holds the same byte and is not yet consumed.                 *)
WindowRange(mx) == IF Len(mx) \div 2 >= 1 THEN Len(mx) \div 2 - 1 ELSE 0
Window(i, mx) ==
  {j \in 0..(Len(mx) - 1) : i - WindowRange(mx) <= j /\ j <= i + WindowRange(mx)}

RECURSIVE GreedyMatch(_, _, _, _)
GreedyMatch(mn, mx, i, M) ==
  IF i >= Len(mn) THEN M
  ELSE LET consumed == {pr[2] : pr \in M}
           cand == {j \in Window(i, mx) \ consumed : At(mx, j) = At(mn, i)}
       IN  IF cand = {} THEN GreedyMatch(mn, mx, i + 1, M)
           ELSE GreedyMatch(mn, mx, i + 1, M \cup {<<i, SetMin(cand)>>})

(* Mismatches between the k-th matched byte of min and the k-th consumed   *)
(* byte of max.                                                            *)
Mismatches(mn, mx, M) ==
  LET I == {pr[1] : pr \in M}
      J == {pr[2] : pr \in M}
  IN  Cardinality({ij \in I \X J : /\ Rank(ij[1], I) = Rank(ij[2], J)
                                   /\ At(mn, ij[1]) # At(mx, ij[2])})

CommonPrefix(mn, mx) ==
  SetMax({k \in 0..Min2(4, Min2(Len(mn), Len(mx))) :
            \A q \in 0..(k - 1) : At(mn, q) = At(mx, q)})

---------------------------------------------------------------------------
(* Properties *)

(* C1: apply(s, s) returns exactly 1 for every string s, on a scorer in    *)
(* any reachable state; for a non-empty s position i of min is matched to  *)
(* position i of max, so m = len(s) and t = 0.                             *)
C1_IdenticalScoresOne ==
  (Called /\ s1 = s2) =>
     /\ ret = One
     /\ s1 # <<>> =>
          /\ m = Len(s1)
          /\ t = 0
          /\ pairs = [k \in 1..Len(s1) |-> <<k - 1, k - 1>>]

C1_Witness ==
  /\ Called /\ s1 = s2 /\ s1 = Abaa
  /\ Capacity > 2 * Len(s1) /\ Capacity # DefaultSize
  /\ ret = One /\ m = 4

(* C2: apply(a, b) = apply(b, a): the call with the arguments exchanged,   *)
(* made on the scorer as the first call left it, returns the same score    *)
(* and finds the same m, t and p; this includes equal lengths, where no    *)
(* swap happens.                                                           *)
C2_Symmetric ==
  Called =>
     LET r == apply(indices, s2, s1)
     IN  /\ ~r.oob
         /\ r.ret = ret
         /\ r.m = m /\ r.t = t /\ r.p = p

C2_Witness ==
  /\ Called /\ Len(s1) = Len(s2) /\ s1 # s2
  /\ m > 0 /\ m < Len(s1) /\ t > 0
  /\ apply(indices, s2, s1).pairs # pairs

(* C3: the score lies in [0, 1]; whenever m > 0,                           *)
(* 0 <= t <= m <= len(min) <= len(max) and 0 <= p <= 4, and the Jaro       *)
(* value (m/len(min) + m/len(max) + (m - t)/m) / 3 lies in [0, 1].         *)
C3_ScoreInUnitInterval ==
  Called =>
     /\ RatLe(Zero, ret) /\ RatLe(ret, One)
     /\ m > 0 =>
          /\ 0 <= t /\ t <= m /\ m <= Len(MinStr) /\ Len(MinStr) <= Len(MaxStr)
          /\ 0 <= p /\ p <= 4
          /\ LET a == Len(MinStr)
                 b == Len(MaxStr)
                 jn == m * m * b + m * m * a + (m - t) * a * b
                 jd == 3 * a * b * m
             IN  0 <= jn /\ jn <= jd

C3_Witness ==
  /\ Called /\ m > 0 /\ t > 0 /\ p > 0
  /\ RatLe(Zero, ret) /\ RatLe(ret, One) /\ ret # One /\ ret # Zero

(* C4: the result of a call does not depend on the scorer's history: it is *)
(* the result of the same call on a fresh scorer built with a capacity of  *)
(* at least len(a) + len(b).                                               *)
C4_HistoryIndependent ==
  Called =>
     \A extra \in 0..2 :
        LET f == apply(with_size(Len(s1) + Len(s2) + extra), s1, s2)
        IN  f.ret = ret /\ f.m = m /\ f.t = t /\ f.p = p

C4_Witness ==
  /\ Called /\ s1 = Abaa /\ s2 = Baaa
  /\ Capacity = 22
  /\ t = 1
  /\ ret = apply(with_size(8), s1, s2).ret

(* C5: apply returns 1 when both inputs are empty and 0 when exactly one   *)
(* is, and such a call runs no pass and leaves the capacity and contents   *)
(* of the scratch buffer as they were.                                     *)
C5_EmptyInputs ==
  [][(pc = "called" /\ pc' = "returned" /\ (s1 = <<>> \/ s2 = <<>>)) =>
        /\ ret' = (IF s1 = <<>> /\ s2 = <<>> THEN One ELSE Zero)
        /\ indices' = indices
        /\ passes' = <<>>]_vars

C5_Witness ==
  /\ Called /\ s1 # <<>> /\ s2 = <<>>
  /\ ret = Zero /\ passes = <<>> /\ Capacity = 0

(* C6: when the matching pass finds no match -- in particular when the two *)
(* non-empty strings share no byte value -- apply returns exactly 0 and    *)
(* runs neither the transposition pass nor the prefix pass.                *)
C6_NoMatchScoresZero ==
  NonEmptyCall =>
     /\ (Bytes(s1) \cap Bytes(s2) = {}) => m = 0
     /\ m = 0 =>
          /\ ret = Zero
          /\ passes = <<"ensure_capacity", "new", "matches">>

C6_Witness ==
  /\ NonEmptyCall /\ m = 0 /\ ret = Zero
  /\ Bytes(s1) \cap Bytes(s2) # {}
  /\ Len(s1) = 3 /\ Len(s2) = 3

(* C7: for non-empty inputs m is the number of greedy window matches, and  *)
(* when m > 0 the score is j + 0.1 * p * (1 - j) with                      *)
(* j = (m/len(min) + m/len(max) + (m - t)/m) / 3, t half the number of     *)
(* mismatches between the k-th matched byte of min and the k-th consumed   *)
(* byte of max, and p the common prefix length capped at 4.                *)
(* ("Foo bar", "Food candybar") gives m = 5, t = 0, p = 3, 1078/1365, and  *)
(* ("martha", "marhta") gives m = 6, t = 1, p = 3, 173/180.                *)
C7_ScoreFormula ==
  NonEmptyCall =>
     LET M == GreedyMatch(MinStr, MaxStr, 0, {})
         a == Len(MinStr)
         b == Len(MaxStr)
         jn == m * m * b + m * m * a + (m - t) * a * b
         jd == 3 * a * b * m
     IN  /\ m = Cardinality(M)
         /\ {<<pairs[k][1], pairs[k][2]>> : k \in 1..Len(pairs)} = M
         /\ m > 0 =>
              /\ t = Mismatches(MinStr, MaxStr, M) \div 2
              /\ p = CommonPrefix(MinStr, MaxStr)
              /\ ~IsNaN(ret)
              /\ ret.num * (10 * jd) = ret.den * (10 * jn + p * (jd - jn))
         /\ (s1 = FooBar /\ s2 = FoodCandybar) =>
              m = 5 /\ t = 0 /\ p = 3 /\ ret.num * 1365 = ret.den * 1078
         /\ (s1 = Martha /\ s2 = Marhta) =>
              m = 6 /\ t = 1 /\ p = 3 /\ ret.num * 180 = ret.den * 173

C7_Witness ==
  /\ NonEmptyCall /\ s1 = Martha /\ s2 = Marhta
  /\ m = 6 /\ t = 1 /\ p = 3
  /\ ret = [num |-> 173, den |-> 180]

(* C8: the capacity never decreases: a call with two non-empty inputs      *)
(* needing n = len(s1) + len(s2) slots leaves the capacity c unchanged     *)
(* when n <= c and otherwise sets it to max(2 * c, n); a call with an      *)
(* empty input leaves it unchanged.                                        *)
C8_CapacityGrowth ==
  [][LET c == Len(indices)
         n == Len(s1) + Len(s2)
     IN  /\ Len(indices') >= c
         /\ Len(indices') =
              (IF pc # "called" \/ s1 = <<>> \/ s2 = <<>> \/ n <= c THEN c
               ELSE IF 2 * c >= n THEN 2 * c ELSE n)]_vars

C8_Witness ==
  /\ Called /\ Capacity = 22
  /\ s1 = Martha /\ s2 = Marhta

(* C9: after construction and after every completed call, whatever its     *)
(* return path, every slot of the scratch buffer holds -1.                 *)
C9_BufferAllSentinel ==
  \A k \in 1..Len(indices) : indices[k] = Sentinel

C9_Witness ==
  /\ Called /\ m > 0 /\ t > 0 /\ flagged = m
  /\ Capacity > 0 /\ Capacity < DefaultSize
  /\ passes = <<"ensure_capacity", "new", "matches", "transpositions", "prefix">>
  /\ \A k \in 1..Len(indices) : indices[k] = Sentinel

(* C10: no call accesses the scratch buffer out of bounds, for any call    *)
(* sequence and any initial capacity, 0 included: at the split the buffer  *)
(* holds at least len(min) + len(max) slots, the matching pass writes at   *)
(* most len(min) entries, and exactly m slots of max_flags are 0 when the  *)
(* transposition pass starts.                                              *)
C10_NoOutOfBounds ==
  /\ ~oob
  /\ NonEmptyCall =>
       /\ Capacity >= Len(MinStr) + Len(MaxStr)
       /\ m <= Len(MinStr)
       /\ Len(pairs) = m
       /\ flagged = m

C10_Witness ==
  /\ NonEmptyCall /\ ~oob
  /\ Capacity = Len(s1) + Len(s2)
  /\ m > 0 /\ m < Len(MinStr) /\ flagged = m

===========================================================================
